---- MODULE Spec2Model ----
(***************************************************************************)
(* State-machine model of server.py: an aiohttp application exposing users *)
(* and adverts stored in PostgreSQL through Gino (single-row access) and   *)
(* aiopg (bulk listing).                                                   *)
(*                                                                         *)
(* A database statement is one atomic step.  Every handler issues a single *)
(* statement and is therefore one action, except AdvertView.delete, whose  *)
(* delete_or_404 awaits two statements (a SELECT, then a DELETE) and is    *)
(* split at the await between them.  Handlers are anonymous coroutines, so  *)
(* the suspended ones are counted per advert id.                           *)
(***************************************************************************)
EXTENDS Integers, Sequences, FiniteSets, TLC

\* ------------------------------------------------------------------ bounds
MaxId == 2        \* largest value a serial sequence hands out
MaxClock == 1     \* number of clock ticks observed
MaxInflight == 2  \* handlers that may be suspended in delete_or_404 at once

\* ------------------------------------------------------ values and inputs
\* A Python value that may be missing (a key absent from the JSON body, a
\* NULL column): <<>> is None, <<v>> is v.
None == <<>>
Some(v) == <<v>>

SerialIds == 1..MaxId  \* values the serial sequences hand out
PathIds == {1, 2}      \* ids a client puts into a request path
ClientIds == {1}       \* ids a client puts into a JSON body

Usernames == {"alice", "bob"}
Emails == {"a@x.com", "b@x.com"}
Passwords == {"p1"}
ClientTimestamp == "2020-01-01T00:00:00"

Opt(S) == {None} \cup {Some(v) : v \in S}

\* JSON bodies a client may send to POST /user: the documented keys, or
\* a body without the password key, or one that is not JSON.
UserBodies ==
    [parsable : {TRUE},
     id : {None}, username : {Some(v) : v \in Usernames},
     email : {Some(v) : v \in Emails},
     password : {Some(v) : v \in Passwords}]
    \cup
    [parsable : {TRUE},
     id : {None}, username : {Some("alice")}, email : {Some("a@x.com")},
     password : {None}]
    \cup
    [parsable : {FALSE},
     id : {None}, username : {None}, email : {None}, password : {None}]

\* JSON bodies a client may send to POST /advert: the documented keys, with
\* or without an owner, or with one more column of the table as a key.
AdvertBodies ==
    [parsable : {TRUE},
     id : {None}, title : {Some("Bike")}, text : {Some("For sale")},
     timestamp : {None}, user_id : Opt(ClientIds)]
    \cup
    [parsable : {TRUE},
     id : {Some(v) : v \in ClientIds}, title : {Some("Bike")},
     text : {Some("For sale")}, timestamp : {None}, user_id : {None}]
    \cup
    [parsable : {TRUE},
     id : {None}, title : {Some("Bike")}, text : {Some("For sale")},
     timestamp : {Some(ClientTimestamp)}, user_id : {None}]
    \cup
    [parsable : {FALSE},
     id : {None}, title : {None}, text : {None},
     timestamp : {None}, user_id : {None}]

NoBody == [parsable |-> FALSE]

\* hashlib.md5(s.encode()).hexdigest()
Md5Hex(s) ==
    CASE s = "p1" -> "ec6ef230f1828039ee794566b9c58adc"
      [] s = "p2" -> "1d665b9b1467944c128a5575119d1cfd"

\* datetime.isoformat(t) for the t-th instant of the observed day.
IsoFormat(t) == "2026-11-01T00:00:0" \o ToString(t)

\* ------------------------------------------------------------------ state
VARIABLES
    pc,          \* position of the main program (module level, run_app)
    log,         \* lifecycle events in the order they happened
    ormBound,    \* db has a bind (primary Gino engine open)
    tablesExist, \* the tables user and advert exist in the database
    poolOpen,    \* app['pg_pool'] is an open aiopg pool
    routes,      \* the router has the eight routes
    clock,       \* current UTC time
    tsDefault,   \* Advert.timestamp column default
    users,       \* rows of table user
    adverts,     \* rows of table advert
    userSeq,     \* next value of user_id_seq
    advertSeq,   \* next value of advert_id_seq
    inflight,    \* per advert id: the number of handlers suspended inside
                 \* delete_or_404, between cls.get and instance.delete
    resp,        \* the response sent by the step just taken, if any
    createdU,    \* per successful POST /user: the id returned and the
                 \* username and email submitted
    returnedA,   \* ids returned by successful POST /advert
    deletedOK    \* ids for which DELETE /advert/{id} answered 200

vars == <<pc, log, ormBound, tablesExist, poolOpen, routes, clock, tsDefault,
          users, adverts, userSeq, advertSeq, inflight, resp,
          createdU, returnedA, deletedOK>>

db == <<users, adverts, userSeq, advertSeq>>
life == <<pc, log, ormBound, tablesExist, poolOpen, routes>>
hist == <<createdU, returnedA, deletedOK>>

\* ids returned by successful POST /user
ReturnedU == {c.id : c \in createdU}

\* No handler is suspended.
Idle == [id \in PathIds |-> 0]

\* Number of suspended handlers.
RECURSIVE Total(_, _)
Total(f, S) ==
    IF S = {} THEN 0
    ELSE LET x == CHOOSE x \in S : TRUE IN f[x] + Total(f, S \ {x})

\* ------------------------------------------------------------- responses
\* raised: the exception that left the handler ("" if it returned).
NoResp ==
    [op |-> "none", id |-> 0, body |-> NoBody, status |-> 0,
     raised |-> "", payload |-> <<>>]

\* web.json_response(data): status 200.
JsonResponse(op, id, body, data) ==
    [op |-> op, id |-> id, body |-> body, status |-> 200,
     raised |-> "", payload |-> data]

\* Status aiohttp sends when exception e leaves a handler: an HTTPException
\* is its own response, anything else becomes 500 Internal Server Error.
StatusOf(e) ==
    CASE e = "HTTPNotFound" -> 404
      [] e = "HTTPBadRequest" -> 400
      [] OTHER -> 500

Raise(op, id, body, e) ==
    [op |-> op, id |-> id, body |-> body, status |-> StatusOf(e),
     raised |-> e, payload |-> <<>>]

\* ----------------------------------------------------------- data access
\* A lookup that ignores the key when the table has rows.
GetAnyRow(table, id) ==
    IF table # {} THEN Some(CHOOSE r \in table : TRUE) ELSE None

\* cls.get(id): the row with that primary key, or None.
Get(table, id) ==
    IF \E r \in table : r.id = id
    THEN Some(CHOOSE r \in table : r.id = id)
    ELSE None

\* BaseModel.get_or_404: the instance, or HTTPNotFound.
GetOr404(table, id) ==
    LET instance == Get(table, id)
    IN  IF instance # None
        THEN [raised |-> "", instance |-> instance]
        ELSE [raised |-> "HTTPNotFound", instance |-> None]

\* A serialisation that also exposes the stored password hash.
UserToDictWithPassword(u) ==
    [id |-> u.id, username |-> u.username, email |-> u.email,
     password |-> u.password]

\* User.to_dict
UserToDict(u) ==
    [id |-> u.id, username |-> u.username, email |-> u.email]

\* Advert.to_dict
AdvertToDict(a) ==
    [id |-> a.id, title |-> a.title, text |-> a.text,
     owner |-> a.user_id, timestamp |-> a.timestamp]

\* INSERT INTO "user": the id defaults to nextval of the sequence (consumed
\* even when the statement fails); primary key, username and email are
\* unique (NULLs never conflict).
UserInsert(kwargs, table, seq) ==
    LET id == IF kwargs.id = None THEN seq ELSE kwargs.id[1]
        seq2 == IF kwargs.id = None THEN seq + 1 ELSE seq
        row == [id |-> id, username |-> kwargs.username,
                email |-> kwargs.email, password |-> kwargs.password]
        dup == \E u \in table :
                  \/ u.id = id
                  \/ (row.username # None /\ u.username = row.username)
                  \/ (row.email # None /\ u.email = row.email)
    IN  IF dup
        THEN [err |-> "UniqueViolationError", row |-> None,
              table |-> table, seq |-> seq2]
        ELSE [err |-> "", row |-> Some(row),
              table |-> table \cup {row}, seq |-> seq2]

\* BaseModel.create_instance: UniqueViolationError becomes HTTPBadRequest,
\* any other error of the statement propagates.
CreateInstance(ins) ==
    IF ins.err = "UniqueViolationError"
    THEN [raised |-> "HTTPBadRequest", instance |-> None]
    ELSE [raised |-> ins.err, instance |-> ins.row]

\* User.create_instance up to the INSERT: kwargs['password'] is replaced by
\* its MD5 hex digest; a body without the key raises KeyError.
UserKwargs(body) ==
    IF body.password = None
    THEN [raised |-> "KeyError", kwargs |-> body]
    ELSE [raised |-> "",
          kwargs |-> [body EXCEPT !.password = Some(Md5Hex(body.password[1]))]]

\* INSERT INTO advert: the id defaults to nextval of the sequence, the
\* timestamp to the column default; the primary key is unique and user_id
\* must be NULL or the id of a stored user.
AdvertInsert(kwargs, table, seq, default, userTable) ==
    LET id == IF kwargs.id = None THEN seq ELSE kwargs.id[1]
        seq2 == IF kwargs.id = None THEN seq + 1 ELSE seq
        row == [id |-> id, title |-> kwargs.title, text |-> kwargs.text,
                timestamp |-> IF kwargs.timestamp = None THEN default
                              ELSE kwargs.timestamp,
                user_id |-> kwargs.user_id]
    IN  IF \E a \in table : a.id = id
        THEN [err |-> "UniqueViolationError", row |-> None,
              table |-> table, seq |-> seq2]
        ELSE IF row.user_id # None
                /\ ~ \E u \in userTable : u.id = row.user_id[1]
        THEN [err |-> "ForeignKeyViolationError", row |-> None,
              table |-> table, seq |-> seq2]
        ELSE [err |-> "", row |-> Some(row),
              table |-> table \cup {row}, seq |-> seq2]

\* instance.delete(): DELETE FROM advert WHERE id = <primary key>.
Delete(table, id) == {r \in table : r.id # id}

\* The orders in which a SELECT without ORDER BY may return the rows.
RowOrders(S) ==
    {s \in [1..Cardinality(S) -> S] : \A r \in S : \E i \in DOMAIN s : s[i] = r}

\* SELECT id, username, email FROM public.user
UserTuple(u) == <<u.id, u.username, u.email>>

\* A column list with text and title exchanged.
AdvertTupleSwapped(a) == <<a.id, a.text, a.title, a.user_id, a.timestamp>>

\* SELECT id, title, text, user_id, timestamp FROM public.advert
AdvertTuple(a) == <<a.id, a.title, a.text, a.user_id, a.timestamp>>

\* cursor.fetchall() in Users.get: one tuple per row, in the order the store
\* returns them.
FetchAllUsers(order) == [i \in DOMAIN order |-> UserTuple(order[i])]

\* cursor.fetchall() in Adverts.get.
FetchAllAdverts(order) == [i \in DOMAIN order |-> AdvertTuple(order[i])]

\* -------------------------------------------------------------- lifecycle
Init ==
    /\ pc = "start"
    /\ log = <<>>
    /\ ormBound = FALSE
    /\ tablesExist = FALSE
    /\ poolOpen = FALSE
    /\ routes = FALSE
    /\ clock = 0
    /\ tsDefault = None
    /\ users = {}
    /\ adverts = {}
    /\ userSeq = 1
    /\ advertSeq = 1
    /\ inflight = Idle
    /\ resp = NoResp
    /\ createdU = {}
    /\ returnedA = {}
    /\ deletedOK = {}

\* Time passes (measured from the moment the module is imported).
Tick ==
    /\ pc # "start"
    /\ clock < MaxClock
    /\ clock' = clock + 1
    /\ resp' = NoResp
    /\ UNCHANGED <<life, tsDefault, db, inflight, hist>>

\* Module import up to the class bodies: the default of Advert.timestamp is
\* the value of datetime.isoformat(datetime.utcnow()) at this moment.
DefineModels ==
    /\ pc = "start"
    /\ pc' = "defined"
    /\ tsDefault' = Some(IsoFormat(clock))
    /\ log' = Append(log, "models")
    /\ resp' = NoResp
    /\ UNCHANGED <<ormBound, tablesExist, poolOpen, routes, clock, db,
                   inflight, hist>>

\* app = web.Application(); cleanup_ctx.append x2; add_routes x8.
RegisterRoutes ==
    /\ pc = "defined"
    /\ pc' = "configured"
    /\ routes' = TRUE
    /\ log' = Append(log, "routes")
    /\ resp' = NoResp
    /\ UNCHANGED <<ormBound, tablesExist, poolOpen, clock, tsDefault, db,
                   inflight, hist>>

\* web.run_app starts; cleanup_ctx[0] = orm_engine runs set_connection().
SetConnection ==
    /\ pc = "configured"
    /\ pc' = "bound"
    /\ ormBound' = TRUE
    /\ log' = Append(log, "orm_open")
    /\ resp' = NoResp
    /\ UNCHANGED <<tablesExist, poolOpen, routes, clock, tsDefault, db,
                   inflight, hist>>

\* orm_engine: db.gino.create_all(), then yield.
CreateAll ==
    /\ pc = "bound"
    /\ ormBound
    /\ pc' = "created"
    /\ tablesExist' = TRUE
    /\ log' = Append(log, "tables")
    /\ resp' = NoResp
    /\ UNCHANGED <<ormBound, poolOpen, routes, clock, tsDefault, db,
                   inflight, hist>>

\* cleanup_ctx[1] = pg_pool: aiopg.create_pool, app['pg_pool'] = pool, yield.
PgPoolOpen ==
    /\ pc = "created"
    /\ pc' = "pooled"
    /\ poolOpen' = TRUE
    /\ log' = Append(log, "pool_open")
    /\ resp' = NoResp
    /\ UNCHANGED <<ormBound, tablesExist, routes, clock, tsDefault, db,
                   inflight, hist>>

\* run_app: startup is complete, the site starts listening on port 8080.
BeginServing ==
    /\ pc = "pooled"
    /\ pc' = "serving"
    /\ log' = Append(log, "serving")
    /\ resp' = NoResp
    /\ UNCHANGED <<ormBound, tablesExist, poolOpen, routes, clock, tsDefault,
                   db, inflight, hist>>

\* run_app leaves its loop: the site stops accepting connections.
StopAccepting ==
    /\ pc = "serving"
    /\ pc' = "draining"
    /\ log' = Append(log, "stop_accepting")
    /\ resp' = NoResp
    /\ UNCHANGED <<ormBound, tablesExist, poolOpen, routes, clock, tsDefault,
                   db, inflight, hist>>

\* run_app: handlers that did not finish within the shutdown timeout are
\* cancelled; afterwards no handler runs.
ShutdownHandlers ==
    /\ pc = "draining"
    /\ pc' = "drained"
    /\ inflight' = Idle
    /\ log' = Append(log, "handlers_done")
    /\ resp' = NoResp
    /\ UNCHANGED <<ormBound, tablesExist, poolOpen, routes, clock, tsDefault,
                   db, hist>>

\* A pool that is closed as soon as the site stops accepting, before the
\* handlers have finished.
PgPoolCloseEarly ==
    /\ pc = "draining"
    /\ pc' = "pool_closed"
    /\ poolOpen' = FALSE
    /\ log' = Append(log, "pool_close")
    /\ resp' = NoResp
    /\ UNCHANGED <<ormBound, tablesExist, routes, clock, tsDefault, db,
                   inflight, hist>>

\* cleanup contexts finish in reverse order: pg_pool resumes, pool.close().
PgPoolClose ==
    /\ pc = "drained"
    /\ pc' = "pool_closed"
    /\ poolOpen' = FALSE
    /\ log' = Append(log, "pool_close")
    /\ resp' = NoResp
    /\ UNCHANGED <<ormBound, tablesExist, routes, clock, tsDefault, db,
                   inflight, hist>>

\* orm_engine resumes: disconnect() pops the bind and closes it.
Disconnect ==
    /\ pc = "pool_closed"
    /\ pc' = "stopped"
    /\ ormBound' = FALSE
    /\ log' = Append(log, "orm_close")
    /\ resp' = NoResp
    /\ UNCHANGED <<tablesExist, poolOpen, routes, clock, tsDefault, db,
                   inflight, hist>>

\* A new request is routed to a handler only while the site is listening.
Accepting == pc = "serving" /\ routes

\* --------------------------------------------------------------- handlers
\* HealthView.get
HealthGet ==
    /\ Accepting
    /\ resp' = JsonResponse("GET /", 0, NoBody, [status |-> "OK!"])
    /\ UNCHANGED <<life, clock, tsDefault, db, inflight, hist>>

\* UserView.get
UserGet(id) ==
    /\ Accepting
    /\ ormBound /\ tablesExist
    /\ LET r == GetOr404(users, id)
       IN  resp' = IF r.raised # ""
                   THEN Raise("GET /user", id, NoBody, r.raised)
                   ELSE JsonResponse("GET /user", id, NoBody,
                                     UserToDict(r.instance[1]))
    /\ UNCHANGED <<life, clock, tsDefault, db, inflight, hist>>

\* UserView.post
UserPost(body) ==
    /\ Accepting
    /\ ormBound /\ tablesExist
    /\ IF ~body.parsable
       THEN /\ resp' = Raise("POST /user", 0, body, "JSONDecodeError")
            /\ UNCHANGED <<users, userSeq, createdU>>
       ELSE LET k == UserKwargs(body)
            IN  IF k.raised # ""
                THEN /\ resp' = Raise("POST /user", 0, body, k.raised)
                     /\ UNCHANGED <<users, userSeq, createdU>>
                ELSE /\ body.id = None => userSeq \in SerialIds
                     /\ LET ins == UserInsert(k.kwargs, users, userSeq)
                            r == CreateInstance(ins)
                        IN  /\ users' = ins.table
                            /\ userSeq' = ins.seq
                            /\ IF r.raised # ""
                               THEN /\ resp' = Raise("POST /user", 0, body,
                                                     r.raised)
                                    /\ UNCHANGED createdU
                               ELSE /\ resp' = JsonResponse("POST /user",
                                           r.instance[1].id, body,
                                           UserToDict(r.instance[1]))
                                    /\ createdU' = createdU \cup
                                           {[id |-> r.instance[1].id,
                                             username |-> body.username,
                                             email |-> body.email]}
    /\ UNCHANGED <<life, clock, tsDefault, adverts, advertSeq, inflight,
                   returnedA, deletedOK>>

\* Users.get
UsersGet ==
    /\ Accepting
    /\ poolOpen /\ tablesExist
    /\ \E order \in RowOrders(users) :
          resp' = JsonResponse("GET /users", 0, NoBody,
                               FetchAllUsers(order))
    /\ UNCHANGED <<life, clock, tsDefault, db, inflight, hist>>

\* AdvertView.get
AdvertGet(id) ==
    /\ Accepting
    /\ ormBound /\ tablesExist
    /\ LET r == GetOr404(adverts, id)
       IN  resp' = IF r.raised # ""
                   THEN Raise("GET /advert", id, NoBody, r.raised)
                   ELSE JsonResponse("GET /advert", id, NoBody,
                                     AdvertToDict(r.instance[1]))
    /\ UNCHANGED <<life, clock, tsDefault, db, inflight, hist>>

\* AdvertView.post
AdvertPost(body) ==
    /\ Accepting
    /\ ormBound /\ tablesExist
    /\ IF ~body.parsable
       THEN /\ resp' = Raise("POST /advert", 0, body, "JSONDecodeError")
            /\ UNCHANGED <<adverts, advertSeq, returnedA>>
       ELSE /\ body.id = None => advertSeq \in SerialIds
            /\ LET ins == AdvertInsert(body, adverts, advertSeq, tsDefault,
                                       users)
                   r == CreateInstance(ins)
               IN  /\ adverts' = ins.table
                   /\ advertSeq' = ins.seq
                   /\ IF r.raised # ""
                      THEN /\ resp' = Raise("POST /advert", 0, body, r.raised)
                           /\ UNCHANGED returnedA
                      ELSE /\ resp' = JsonResponse("POST /advert",
                                  r.instance[1].id, body,
                                  AdvertToDict(r.instance[1]))
                           /\ returnedA' = returnedA \cup {r.instance[1].id}
    /\ UNCHANGED <<life, clock, tsDefault, users, userSeq, inflight,
                   createdU, deletedOK>>

\* AdvertView.delete up to the first await of delete_or_404: cls.get(id);
\* no instance raises HTTPNotFound, otherwise the handler goes on to delete.
AdvertDeleteGet(id) ==
    /\ Accepting
    /\ ormBound /\ tablesExist
    /\ Total(inflight, PathIds) < MaxInflight
    /\ IF Get(adverts, id) = None
       THEN /\ resp' = Raise("DELETE /advert", id, NoBody, "HTTPNotFound")
            /\ UNCHANGED inflight
       ELSE /\ resp' = NoResp
            /\ inflight' = [inflight EXCEPT ![id] = @ + 1]
    /\ UNCHANGED <<life, clock, tsDefault, db, hist>>

\* AdvertView.delete from instance.delete() on: the DELETE statement, then
\* delete_or_404 returns its argument and the handler echoes it.
AdvertDeleteExec(id) ==
    /\ pc \in {"serving", "draining"}
    /\ ormBound /\ tablesExist
    /\ inflight[id] > 0
    /\ adverts' = Delete(adverts, id)
    /\ resp' = JsonResponse("DELETE /advert", id, NoBody, [DeletedID |-> id])
    /\ deletedOK' = deletedOK \cup {id}
    /\ inflight' = [inflight EXCEPT ![id] = @ - 1]
    /\ UNCHANGED <<life, clock, tsDefault, users, userSeq, advertSeq,
                   createdU, returnedA>>

\* Adverts.get
AdvertsGet ==
    /\ Accepting
    /\ poolOpen /\ tablesExist
    /\ \E order \in RowOrders(adverts) :
          resp' = JsonResponse("GET /adverts", 0, NoBody,
                               FetchAllAdverts(order))
    /\ UNCHANGED <<life, clock, tsDefault, db, inflight, hist>>

\* The program reads the clock once, in DefineModels; no handler reads it.
Next ==
    \/ DefineModels
    \/ RegisterRoutes
    \/ SetConnection
    \/ CreateAll
    \/ PgPoolOpen
    \/ BeginServing
    \/ StopAccepting
    \/ ShutdownHandlers
    \/ PgPoolClose
    \/ Disconnect
    \/ HealthGet
    \/ \E id \in PathIds : UserGet(id)
    \/ \E body \in UserBodies : UserPost(body)
    \/ UsersGet
    \/ \E id \in PathIds : AdvertGet(id)
    \/ \E body \in AdvertBodies : AdvertPost(body)
    \/ \E id \in PathIds : AdvertDeleteGet(id)
    \/ \E id \in PathIds : AdvertDeleteExec(id)
    \/ AdvertsGet

Spec == Init /\ [][Next]_vars

\* The program in an environment where time is seen to pass.
NextClock ==
    \/ Next
    \/ Tick

SpecClock == Init /\ [][NextClock]_vars

\* ------------------------------------------------------------- properties
\* Position of a lifecycle event in the log (0: it has not happened).
Pos(e) ==
    IF \E i \in DOMAIN log : log[i] = e
    THEN CHOOSE i \in DOMAIN log : log[i] = e
    ELSE 0

\* Event b has only happened if a happened earlier.
Before(a, b) == Pos(b) > 0 => (Pos(a) > 0 /\ Pos(a) < Pos(b))

\* The body's username or email is that of a stored user.
TakenUser(body, table) ==
    \E u \in table :
        \/ (body.username # None /\ u.username = body.username)
        \/ (body.email # None /\ u.email = body.email)

\* C1: a POST /user whose username or email is already stored is answered
\* with 400 and leaves the rows of table user as they were.
C1_DuplicateUserIs400 ==
    [][(resp'.op = "POST /user" /\ TakenUser(resp'.body, users))
        => (resp'.status = 400 /\ users' = users)]_vars

\* C2: a DELETE /advert/{id} answered with 200 echoes the id of the path,
\* and from then on every GET /advert/{id} for that id is answered with 404.
C2_DeletedAdvertStaysGone ==
    /\ (resp.op = "DELETE /advert" /\ resp.status = 200)
        => resp.payload = [DeletedID |-> resp.id]
    /\ (resp.op = "GET /advert" /\ resp.id \in deletedOK)
        => resp.status = 404

\* C3: an advert created from a body without a timestamp carries the
\* moment of its creation as its timestamp.
C3_TimestampIsCreationMoment ==
    (resp.op = "POST /advert" /\ resp.status = 200
        /\ resp.body.timestamp = None)
    => /\ resp.payload.timestamp = Some(IsoFormat(clock))
       /\ \E a \in adverts :
             a.id = resp.id /\ a.timestamp = Some(IsoFormat(clock))

\* The insert of the body violates a constraint of table advert: the primary
\* key is taken, or user_id is the id of no stored user.
ViolatesAdvertConstraint(body, table, userTable) ==
    /\ body.parsable
    /\ \/ (body.id # None /\ \E a \in table : a.id = body.id[1])
       \/ (body.user_id # None
            /\ ~ \E u \in userTable : u.id = body.user_id[1])

\* C4: a POST /advert whose insert violates a constraint is answered with
\* 400 and stores no advert row.
C4_ConstraintViolationIs400 ==
    [][(resp'.op = "POST /advert"
          /\ ViolatesAdvertConstraint(resp'.body, adverts, users))
        => (resp'.status = 400 /\ adverts' = adverts)]_vars

\* C5: the only exceptions that leave a handler are the handler's own HTTP
\* error responses.
C5_NoExceptionLeavesHandler ==
    resp.raised \in {"", "HTTPNotFound", "HTTPBadRequest"}

\* C6: GET /adverts returns one entry per stored advert row, each the tuple
\* (id, title, text, owner, timestamp) of its row; with no deletion so far
\* that is one entry per successful creation.
C6_ListMatchesStore ==
    resp.op = "GET /adverts" =>
        /\ resp.status = 200
        /\ Len(resp.payload) = Cardinality(adverts)
        /\ \A a \in adverts :
              \E i \in DOMAIN resp.payload :
                 resp.payload[i] =
                     <<a.id, a.title, a.text, a.user_id, a.timestamp>>
        /\ \A i \in DOMAIN resp.payload :
              \E a \in adverts :
                 resp.payload[i] =
                     <<a.id, a.title, a.text, a.user_id, a.timestamp>>
        /\ deletedOK = {} => Len(resp.payload) = Cardinality(returnedA)

\* A listing of two adverts, one of them created after a deletion.
C6_Witness ==
    /\ resp.op = "GET /adverts"
    /\ Len(resp.payload) = 2
    /\ deletedOK # {}

\* C7: a successful POST /user answers with the id and the username and
\* email submitted; a later GET /user/{id} for that id answers 200 with the
\* same three values; neither answer has a password field.
C7_CreateThenFetch ==
    /\ (resp.op = "POST /user" /\ resp.status = 200) =>
          /\ resp.payload = [id |-> resp.id,
                             username |-> resp.body.username,
                             email |-> resp.body.email]
          /\ "password" \notin DOMAIN resp.payload
    /\ \A c \in createdU :
          (resp.op = "GET /user" /\ resp.id = c.id) =>
              /\ resp.status = 200
              /\ resp.payload = [id |-> c.id, username |-> c.username,
                                 email |-> c.email]
              /\ "password" \notin DOMAIN resp.payload

\* The second user created is fetched while two users are stored.
C7_Witness ==
    /\ resp.op = "GET /user"
    /\ resp.status = 200
    /\ resp.id = 2
    /\ resp.id \in ReturnedU
    /\ Cardinality(users) = 2

\* C8: GET /user/{id} and GET /advert/{id} for an id that no successful
\* create has returned are answered with 404 and leave the store unchanged.
C8_NeverCreatedIs404 ==
    [][/\ (resp'.op = "GET /user" /\ resp'.id \notin ReturnedU)
            => (resp'.status = 404 /\ UNCHANGED db)
       /\ (resp'.op = "GET /advert" /\ resp'.id \notin returnedA)
            => (resp'.status = 404 /\ UNCHANGED db)]_vars

\* An advert id that was never returned is fetched while both tables have
\* rows.
C8_Witness ==
    /\ resp.op = "GET /advert"
    /\ resp.status = 404
    /\ resp.id \notin returnedA
    /\ adverts # {}
    /\ users # {}

\* A request is being handled or has just been answered.
Handling == resp.op # "none" \/ inflight # Idle

\* C9 as stated: ORM connection, tables, raw pool, routes, serving, in this
\* order; requests only with both handles open and the tables present;
\* the pool is closed before the connection, and nothing is closed while a
\* request is handled.
C9_RoutesAfterPool ==
    /\ Before("orm_open", "tables")
    /\ Before("tables", "pool_open")
    /\ Before("pool_open", "routes")
    /\ Before("routes", "serving")
    /\ Handling => (ormBound /\ poolOpen /\ tablesExist)
    /\ Before("pool_close", "orm_close")
    /\ (Pos("pool_close") > 0 \/ Pos("orm_close") > 0) => ~Handling

\* C9 (amended): the routes are registered first, then the ORM connection
\* is opened, the tables are created, the raw pool is opened and serving
\* begins; requests are handled only with both handles open and the tables
\* present; the pool is closed before the connection, after the handlers
\* are done, and nothing is closed while a request is handled.
C9_LifecycleOrder ==
    /\ Before("routes", "orm_open")
    /\ Before("orm_open", "tables")
    /\ Before("tables", "pool_open")
    /\ Before("pool_open", "serving")
    /\ Handling => (ormBound /\ poolOpen /\ tablesExist)
    /\ Before("serving", "handlers_done")
    /\ Before("handlers_done", "pool_close")
    /\ Before("pool_close", "orm_close")
    /\ (Pos("pool_close") > 0 \/ Pos("orm_close") > 0) => ~Handling
    /\ ormBound <=> (Pos("orm_open") > 0 /\ Pos("orm_close") = 0)
    /\ poolOpen <=> (Pos("pool_open") > 0 /\ Pos("pool_close") = 0)
    /\ tablesExist <=> Pos("tables") > 0
    /\ routes <=> Pos("routes") > 0

\* The process has stopped after serving requests that stored rows.
C9_Witness ==
    /\ pc = "stopped"
    /\ users # {}
    /\ adverts # {}
    /\ ~ormBound /\ ~poolOpen

\* C10: a DELETE /advert/{id} is answered with 200 only if the row was
\* stored when its DELETE statement ran.
C10_DeleteSucceedsOnlyOnStoredRow ==
    [][(resp'.op = "DELETE /advert" /\ resp'.status = 200)
        => \E a \in adverts : a.id = resp'.id]_vars

====
